---- MODULE Spec2Model ----
(***************************************************************************)
(* Model of the thermal-printer daemon in src/src/print.rs.                *)
(*                                                                         *)
(* Pure part: generate_qr, qr_to_escpos, compose_print_data.               *)
(* Stateful part: the HTTP handlers print_receipt / print_receipt_info,    *)
(* each running print_to_thermal_printer on a worker thread, against a     *)
(* USB bus.  Every rusb call the code makes is one step of a job, so the   *)
(* steps of concurrent requests interleave.                                *)
(*                                                                         *)
(* What the USB stack does is taken from rusb/libusb as the code uses it:  *)
(*  - every call followed by `?` can fail, which ends the function;        *)
(*  - an interface is claimed by at most one open handle at a time and     *)
(*    cannot be claimed while a kernel driver is bound to it;              *)
(*  - leaving the scope of `handle` (return, `?`, unwinding panic) runs    *)
(*    rusb's DeviceHandle drop: interfaces still claimed through the       *)
(*    handle are released and the device is closed.  Nothing reattaches a  *)
(*    detached kernel driver;                                              *)
(*  - write_bulk reports Ok(n) when the transfer ended by timeout after    *)
(*    n > 0 bytes, and Err when it ended with nothing transferred.         *)
(***************************************************************************)
EXTENDS Integers, Sequences, FiniteSets, TLC

\* ------------------------------------------------------------------ bounds
MaxDevices == 2     \* devices on the bus
PacketSize == 16    \* bytes the bulk-OUT sink takes per packet

\* ------------------------------------------------------- program constants
FixedVid == 4070               \* 0x0FE6, print_receipt
FixedPid == 33054              \* 0x811E, print_receipt
interface_number == 0
QrSide == 200                  \* image.resize(200, 200, ..)
Threshold == 128               \* pixel[0] < 128
QrMaxBytes == 2331             \* capacity of QrCode::new (level M, version 40)

\* ---------------------------------------------------------------- helpers
Min(a, b) == IF a < b THEN a ELSE b
Max(a, b) == IF a > b THEN a ELSE b

None == <<>>
Some(x) == <<x>>

\* ------------------------------------------------------------------ Line
\* struct Line { text, center, bold, double_size, qr }
Line(text, center, bold, double_size, qr) ==
    [text |-> text, center |-> center, bold |-> bold,
     double_size |-> double_size, qr |-> qr]

\* A QR payload is known by its length in bytes and by the symbol it encodes to.
Payload(len, sym) == [len |-> len, sym |-> sym]

\* ------------------------------------------------------------ generate_qr
\* QrCode::new(data) is Err when the data do not fit any version.
QrEncodable(data) == data.len <= QrMaxBytes

\* The module matrix of the symbol (dark = TRUE).  The real matrix is the
\* qrcode crate's; here a payload selects one of two small square patterns.
QrModules(data) ==
    IF data.sym = 0
    THEN << <<TRUE, FALSE>>, <<FALSE, TRUE>> >>
    ELSE << <<TRUE, TRUE, FALSE>>, <<FALSE, TRUE, FALSE>>, <<TRUE, FALSE, TRUE>> >>

ModulePx == 8                  \* render(): 8x8 pixels per module
QuietZone == 4                 \* render(): 4 modules of quiet zone

\* code.render::<Luma<u8>>().build(): dark modules 0, light ones and the quiet
\* zone 255.  An image is [width, height, px], px[y][x] for 0-based x, y.
generate_qr(data) ==
    LET m == QrModules(data)
        n == Len(m)
        side == (n + 2 * QuietZone) * ModulePx
        mod(x, y) == LET mx == (x \div ModulePx) - QuietZone
                         my == (y \div ModulePx) - QuietZone
                     IN  /\ mx >= 0 /\ mx < n /\ my >= 0 /\ my < n
                         /\ m[my + 1][mx + 1]
    IN  [width |-> side, height |-> side,
         px |-> [y \in 0..(side - 1) |->
                   [x \in 0..(side - 1) |-> IF mod(x, y) THEN 0 ELSE 255]]]

\* ----------------------------------------------------------- qr_to_escpos
\* Rounded quotient a*b/c (round half up), as the f64 arithmetic of the
\* image crate's resize_dimensions gives for these sizes.
RoundDiv(a, c) == (2 * a + c) \div (2 * c)

\* as resize, with the resize left out
resize_None(image, nwidth, nheight) == image

\* image.resize(nwidth, nheight, Nearest): the aspect ratio is kept, the
\* result is the largest size that fits nwidth x nheight, and each pixel is
\* the source pixel nearest to its centre.
resize(image, nwidth, nheight) ==
    LET w == image.width
        h == image.height
        byWidth == nwidth * h <= nheight * w
        nw == IF byWidth THEN nwidth ELSE Max(RoundDiv(w * nheight, h), 1)
        nh == IF byWidth THEN Max(RoundDiv(h * nwidth, w), 1) ELSE nheight
        sx(x) == Min(((2 * x + 1) * w) \div (2 * nw), w - 1)
        sy(y) == Min(((2 * y + 1) * h) \div (2 * nh), h - 1)
    IN  [width |-> nw, height |-> nh,
         px |-> [y \in 0..(nh - 1) |->
                   [x \in 0..(nw - 1) |-> image.px[sy(y)][sx(x)]]]]

\* b |= 1 << (7 - bit), for the bits of one byte
Pow2(n) == IF n = 0 THEN 1 ELSE IF n = 1 THEN 2 ELSE IF n = 2 THEN 4
           ELSE IF n = 3 THEN 8 ELSE IF n = 4 THEN 16 ELSE IF n = 5 THEN 32
           ELSE IF n = 6 THEN 64 ELSE 128

RECURSIVE PackByte_LsbFirst(_, _, _, _)
\* as PackByte, with `1 << bit` written for `1 << (7 - bit)`
PackByte_LsbFirst(gray, y, x_byte, bit) ==
    IF bit = 8 THEN 0
    ELSE LET x == (x_byte * 8 + bit) % 65536
             ink == /\ x < gray.width % 65536
                    /\ gray.px[y][x] < Threshold
         IN  (IF ink THEN Pow2(bit) ELSE 0) + PackByte_LsbFirst(gray, y, x_byte, bit + 1)

RECURSIVE PackByte(_, _, _, _)
\* the inner `for bit in 0..8` loop of qr_to_escpos, from `bit` on
PackByte(gray, y, x_byte, bit) ==
    IF bit = 8 THEN 0
    ELSE LET x == (x_byte * 8 + bit) % 65536
             ink == /\ x < gray.width % 65536
                    /\ gray.px[y][x] < Threshold
         IN  (IF ink THEN Pow2(7 - bit) ELSE 0) + PackByte(gray, y, x_byte, bit + 1)

qr_to_escpos(image) ==
    LET gray == resize(image, QrSide, QrSide)      \* to_luma8 keeps Luma8 pixels
        width_bytes == ((gray.width + 7) \div 8) % 65536
        height == gray.height % 65536
        rows == [k \in 1..(gray.height * width_bytes) |->
                   PackByte(gray, (k - 1) \div width_bytes, (k - 1) % width_bytes, 0)]
    IN  <<29, 118, 48, 0>>
        \o <<width_bytes % 256, width_bytes \div 256, height % 256, height \div 256>>
        \o rows

\* as LineBytes, with a line that has neither text nor QR emitting nothing
LineBytes_SkipBlank(line) ==
    IF line.text = <<>> /\ line.qr = None THEN <<>>
    ELSE (IF line.center THEN <<27, 97, 1>> ELSE <<27, 97, 0>>)
         \o (IF line.bold THEN <<27, 69, 1>> ELSE <<27, 69, 0>>)
         \o (IF line.double_size THEN <<29, 33, 17>> ELSE <<29, 33, 0>>)
         \o (IF line.text # <<>> THEN line.text \o <<10>> ELSE <<>>)
         \o (IF line.qr # None THEN qr_to_escpos(generate_qr(line.qr[1])) \o <<10>> ELSE <<>>)

\* ----------------------------------------------------- compose_print_data
\* The bytes one line adds to `data`.
LineBytes(line) ==
    (IF line.center THEN <<27, 97, 1>> ELSE <<27, 97, 0>>)
    \o (IF line.bold THEN <<27, 69, 1>> ELSE <<27, 69, 0>>)
    \o (IF line.double_size THEN <<29, 33, 17>> ELSE <<29, 33, 0>>)
    \o (IF line.text # <<>> THEN line.text \o <<10>> ELSE <<>>)
    \o (IF line.qr # None THEN qr_to_escpos(generate_qr(line.qr[1])) \o <<10>> ELSE <<>>)

RECURSIVE LinesBytes(_)
LinesBytes(lines) ==
    IF lines = <<>> THEN <<>>
    ELSE LineBytes(Head(lines)) \o LinesBytes(Tail(lines))

\* generate_qr unwraps the encoder's result: compose_print_data panics at the
\* first line whose payload cannot be encoded.
ComposePanics(lines) ==
    \E i \in 1..Len(lines) : lines[i].qr # None /\ ~QrEncodable(lines[i].qr[1])

\* as compose_print_data, returning right after the initialize command when
\* there is no line
compose_print_data_EarlyReturn(lines) ==
    IF lines = <<>> THEN <<27, 64>>
    ELSE <<27, 64>>
         \o LinesBytes(lines)
         \o <<27, 69, 0>> \o <<29, 33, 0>> \o <<27, 97, 0>>
         \o <<27, 100, 3>> \o <<29, 86, 0>>

compose_print_data(lines) ==
    <<27, 64>>
    \o LinesBytes(lines)
    \o <<27, 69, 0>> \o <<29, 33, 0>> \o <<27, 97, 0>>
    \o <<27, 100, 3>> \o <<29, 86, 0>>

\* ----------------------------------------------------------- USB devices
\* An endpoint descriptor, an alternate setting (its endpoints), an interface
\* (its alternate settings) and a configuration (its interfaces).
Endpoint(address, direction, transfer_type) ==
    [address |-> address, direction |-> direction, transfer_type |-> transfer_type]

Interface(number, descriptors) == [number |-> number, descriptors |-> descriptors]

\* one bulk-OUT endpoint, on interface 0
CfgSingle ==
    << Interface(0, << << Endpoint(129, "In", "Bulk"), Endpoint(1, "Out", "Bulk") >> >>) >>

\* bulk-OUT endpoints on two alternate settings of interface 0 and on interface 1
CfgMulti ==
    << Interface(0, << << Endpoint(1, "Out", "Bulk"), Endpoint(129, "In", "Bulk") >>,
                       << Endpoint(2, "Out", "Bulk") >> >>),
       Interface(1, << << Endpoint(3, "Out", "Interrupt"), Endpoint(4, "Out", "Bulk") >> >>) >>

\* no bulk-OUT endpoint
CfgNoBulkOut ==
    << Interface(0, << << Endpoint(129, "In", "Bulk"), Endpoint(3, "Out", "Interrupt") >> >>) >>

OtherVid == FixedVid + 1
OtherPid == FixedPid + 1

Device(vid, pid, config, driver) ==
    [vid |-> vid, pid |-> pid, config |-> config, driver |-> driver]

\* The devices that may sit on the bus; `driver` says whether a kernel driver
\* holds interface 0 when the daemon starts.
DeviceModels ==
    { Device(FixedVid, FixedPid, CfgSingle, TRUE),
      Device(OtherVid, FixedPid, CfgMulti, FALSE),
      Device(FixedVid, OtherPid, CfgSingle, FALSE),
      Device(OtherVid, FixedPid, CfgNoBulkOut, TRUE) }

DeviceLists == UNION { [1..n -> DeviceModels] : n \in 0..MaxDevices }

\* ---------------------------------------------------------------- requests
Jobs == {1, 2}                 \* two requests, served on two worker threads

TextA == <<65>>
LineA == Line(TextA, FALSE, TRUE, FALSE, None)
LineBadQr == Line(<<>>, TRUE, FALSE, TRUE, Some(Payload(QrMaxBytes + 1, 0)))

\* struct PrintInfo { name, pid, vid, lines }
PrintInfo(name, vid, pid, lines) ==
    [name |-> name, vid |-> vid, pid |-> pid, lines |-> lines]

PrintInfos ==
    { PrintInfo("ana", FixedVid, FixedPid, lines) :
        lines \in { <<>>, <<LineA>>, <<LineA, LineBadQr>> } }
    \cup { PrintInfo("bob", OtherVid, FixedPid, <<LineA>>) }

\* ------------------------------------------------------------------- state
VARIABLES
    devices,        \* the bus: the attached devices, in enumeration order
    kernel_driver,  \* per device: a kernel driver is bound to interface 0
    claimed,        \* per device: the job whose handle claims interface 0, or 0
    wire,           \* per device: the packets its endpoints received, in order
    pc,             \* per job: where it is in the handler
    req,            \* per job: the PrintInfo it serves
    idx,            \* per job: position of `for device in context.devices()`
    dev,            \* per job: the device it matched (index in devices), or 0
    opened,         \* per job: `handle` is alive
    endpoint,       \* per job: bulk_out_endpoint
    print_data,     \* per job: print_data
    written,        \* per job: bytes of print_data the device took so far
    result,         \* per job: what print_to_thermal_printer ended with
    ops,            \* per job: the device operations it attempted, in order
    log,            \* per job: the line the handler printed
    response,       \* per job: the HTTP response
    image,          \* the bitmap handed to qr_to_escpos when it is run on its own
    bytes           \* what qr_to_escpos returned for it

vars == <<devices, kernel_driver, claimed, wire, pc, req, idx, dev, opened,
          endpoint, print_data, written, result, ops, log, response, image, bytes>>

busVars == <<kernel_driver, claimed, wire>>
jobData == <<req, idx, dev, opened, endpoint, print_data, written>>
outVars == <<log, response>>
qrVars == <<image, bytes>>

NoImage == [width |-> 0, height |-> 0, px |-> <<>>]

NoReq == PrintInfo("", 0, 0, <<>>)

Results == {"none", "Ok", "ContextError", "DescriptorError", "NotFound", "OpenError",
            "DriverError", "ClaimError", "ConfigError", "NoEndpoint", "WriteError",
            "ReleaseError", "Panic"}

\* The shape of the state.
TypeOK ==
    /\ devices \in DeviceLists
    /\ kernel_driver \in [DOMAIN devices -> BOOLEAN]
    /\ claimed \in [DOMAIN devices -> Jobs \cup {0}]
    /\ \A d \in DOMAIN devices : \A i \in 1..Len(wire[d]) : wire[d][i].job \in Jobs
    /\ pc \in [Jobs -> {"idle", "enumerate", "scan", "open", "driver", "detach", "claim",
                        "config", "compose", "write", "release", "exit", "returned",
                        "done"}]
    /\ \A j \in Jobs :
          /\ req[j] \in PrintInfos \cup {NoReq, PrintInfo("oscar", FixedVid, FixedPid, <<>>)}
          /\ idx[j] \in 0..(Len(devices) + 1)
          /\ dev[j] \in 0..Len(devices)
          /\ opened[j] \in BOOLEAN
          /\ opened[j] => dev[j] # 0
          /\ endpoint[j] = None \/ Len(endpoint[j]) = 1
          /\ written[j] \in 0..Len(print_data[j])
          /\ result[j] \in Results
          /\ response[j].status \in {0, 200, 500}

Init ==
    /\ devices \in DeviceLists
    /\ kernel_driver = [d \in DOMAIN devices |-> devices[d].driver]
    /\ claimed = [d \in DOMAIN devices |-> 0]
    /\ wire = [d \in DOMAIN devices |-> <<>>]
    /\ pc = [j \in Jobs |-> "idle"]
    /\ req = [j \in Jobs |-> NoReq]
    /\ idx = [j \in Jobs |-> 0]
    /\ dev = [j \in Jobs |-> 0]
    /\ opened = [j \in Jobs |-> FALSE]
    /\ endpoint = [j \in Jobs |-> None]
    /\ print_data = [j \in Jobs |-> <<>>]
    /\ written = [j \in Jobs |-> 0]
    /\ result = [j \in Jobs |-> "none"]
    /\ ops = [j \in Jobs |-> <<>>]
    /\ log = [j \in Jobs |-> "none"]
    /\ response = [j \in Jobs |-> [status |-> 0, body |-> <<>>]]
    /\ image = NoImage
    /\ bytes = <<>>

\* ------------------------------------------------- the HTTP handlers, entry
\* GET /print: print_to_thermal_printer(0x0FE6, 0x811E, Vec::new())
print_receipt(j) ==
    /\ pc[j] = "idle"
    /\ req' = [req EXCEPT ![j] = PrintInfo("oscar", FixedVid, FixedPid, <<>>)]
    /\ pc' = [pc EXCEPT ![j] = "enumerate"]
    /\ UNCHANGED <<qrVars, devices, busVars, idx, dev, opened, endpoint, print_data,
                   written, result, ops, outVars>>

\* POST /print: print_to_thermal_printer(vid, pid, lines.clone())
print_receipt_info(j, print_info) ==
    /\ pc[j] = "idle"
    /\ req' = [req EXCEPT ![j] = print_info]
    /\ pc' = [pc EXCEPT ![j] = "enumerate"]
    /\ UNCHANGED <<qrVars, devices, busVars, idx, dev, opened, endpoint, print_data,
                   written, result, ops, outVars>>

\* --------------------------------------------- print_to_thermal_printer
\* `?` on an Err, `return Err(..)`, `return Ok(())`: the function is left with
\* this result; its locals are dropped next (Return).
Leave(j, res) ==
    /\ result' = [result EXCEPT ![j] = res]
    /\ pc' = [pc EXCEPT ![j] = "exit"]

Did(j, op, ok) ==
    ops' = [ops EXCEPT ![j] = Append(@, [op |-> op, dev |-> dev[j], ok |-> ok])]

\* Context::new()? and context.devices()?
Enumerate(j) ==
    /\ pc[j] = "enumerate"
    /\ \/ /\ idx' = [idx EXCEPT ![j] = 1]
          /\ pc' = [pc EXCEPT ![j] = "scan"]
          /\ UNCHANGED result
       \/ /\ Leave(j, "ContextError")
          /\ UNCHANGED idx
    /\ UNCHANGED <<qrVars, devices, busVars, req, dev, opened, endpoint, print_data,
                   written, ops, outVars>>

\* as DescMatches, with `||` written for `&&`
DescMatches_Either(desc, vid, pid) == desc.vid = vid \/ desc.pid = pid

\* desc.vendor_id() == vid && desc.product_id() == pid
DescMatches(desc, vid, pid) == desc.vid = vid /\ desc.pid = pid

\* One turn of `for device in context.devices()?.iter()`, up to the match test;
\* the loop ending without a match is Err("Thermal printer not found").
ScanDevice(j) ==
    /\ pc[j] = "scan"
    /\ \/ /\ idx[j] > Len(devices)
          /\ Leave(j, "NotFound")
          /\ UNCHANGED <<idx, dev>>
       \/ /\ idx[j] <= Len(devices)           \* device.device_descriptor()? is Err
          /\ Leave(j, "DescriptorError")
          /\ UNCHANGED <<idx, dev>>
       \/ /\ idx[j] <= Len(devices)
          /\ IF DescMatches(devices[idx[j]], req[j].vid, req[j].pid)
             THEN /\ dev' = [dev EXCEPT ![j] = idx[j]]
                  /\ pc' = [pc EXCEPT ![j] = "open"]
                  /\ UNCHANGED idx
             ELSE /\ idx' = [idx EXCEPT ![j] = @ + 1]
                  /\ UNCHANGED <<dev, pc>>
          /\ UNCHANGED result
    /\ UNCHANGED <<qrVars, devices, busVars, req, opened, endpoint, print_data,
                   written, ops, outVars>>

\* as Open, with a device that fails to open skipped and the loop continued
Open_TryNext(j) ==
    /\ pc[j] = "open"
    /\ \/ /\ opened' = [opened EXCEPT ![j] = TRUE]
          /\ pc' = [pc EXCEPT ![j] = "driver"]
          /\ Did(j, "open", TRUE)
          /\ UNCHANGED idx
       \/ /\ idx' = [idx EXCEPT ![j] = @ + 1]
          /\ pc' = [pc EXCEPT ![j] = "scan"]
          /\ Did(j, "open", FALSE)
          /\ UNCHANGED opened
    /\ UNCHANGED <<qrVars, devices, busVars, req, dev, endpoint, print_data,
                   written, result, outVars>>

\* let handle = device.open()?
Open(j) ==
    /\ pc[j] = "open"
    /\ \/ /\ opened' = [opened EXCEPT ![j] = TRUE]
          /\ pc' = [pc EXCEPT ![j] = "driver"]
          /\ Did(j, "open", TRUE)
          /\ UNCHANGED result
       \/ /\ Leave(j, "OpenError")
          /\ Did(j, "open", FALSE)
          /\ UNCHANGED opened
    /\ UNCHANGED <<qrVars, devices, busVars, req, idx, dev, endpoint, print_data,
                   written, outVars>>

\* as KernelDriverActive, with the claim moved into the `if`: without a
\* kernel driver the interface is not claimed
KernelDriverActive_ClaimInside(j) ==
    /\ pc[j] = "driver"
    /\ \/ /\ pc' = [pc EXCEPT ![j] = IF kernel_driver[dev[j]] THEN "detach" ELSE "config"]
          /\ UNCHANGED result
       \/ Leave(j, "DriverError")
    /\ UNCHANGED <<qrVars, devices, busVars, jobData, ops, outVars>>

\* handle.kernel_driver_active(interface_number)?
KernelDriverActive(j) ==
    /\ pc[j] = "driver"
    /\ \/ /\ pc' = [pc EXCEPT ![j] = IF kernel_driver[dev[j]] THEN "detach" ELSE "claim"]
          /\ UNCHANGED result
       \/ Leave(j, "DriverError")
    /\ UNCHANGED <<qrVars, devices, busVars, jobData, ops, outVars>>

\* handle.detach_kernel_driver(interface_number)?; it is Err when no kernel
\* driver is bound any more.
DetachKernelDriver(j) ==
    /\ pc[j] = "detach"
    /\ \/ /\ kernel_driver[dev[j]]
          /\ kernel_driver' = [kernel_driver EXCEPT ![dev[j]] = FALSE]
          /\ pc' = [pc EXCEPT ![j] = "claim"]
          /\ Did(j, "detach", TRUE)
          /\ UNCHANGED result
       \/ /\ Leave(j, "DriverError")
          /\ Did(j, "detach", FALSE)
          /\ UNCHANGED kernel_driver
    /\ UNCHANGED <<qrVars, devices, claimed, wire, jobData, outVars>>

\* The bus grants a claim of interface 0 when neither another handle nor a
\* kernel driver holds it.
ClaimGranted(j) == claimed[dev[j]] = 0 /\ ~kernel_driver[dev[j]]

\* as ClaimInterface, with the `?` dropped: a refused claim is ignored
ClaimInterface_Unchecked(j) ==
    /\ pc[j] = "claim"
    /\ claimed' = IF ClaimGranted(j) THEN [claimed EXCEPT ![dev[j]] = j] ELSE claimed
    /\ pc' = [pc EXCEPT ![j] = "config"]
    /\ Did(j, "claim", ClaimGranted(j))
    /\ UNCHANGED <<qrVars, devices, kernel_driver, wire, jobData, result, outVars>>

\* handle.claim_interface(interface_number)?
ClaimInterface(j) ==
    /\ pc[j] = "claim"
    /\ \/ /\ ClaimGranted(j)
          /\ claimed' = [claimed EXCEPT ![dev[j]] = j]
          /\ pc' = [pc EXCEPT ![j] = "config"]
          /\ Did(j, "claim", TRUE)
          /\ UNCHANGED result
       \/ /\ Leave(j, "ClaimError")
          /\ Did(j, "claim", FALSE)
          /\ UNCHANGED claimed
    /\ UNCHANGED <<qrVars, devices, kernel_driver, wire, jobData, outVars>>

\* The endpoints of a configuration in the order the three nested loops
\* visit them, each with the number of its interface.
RECURSIVE AltEndpoints(_, _)
AltEndpoints(number, descriptors) ==
    IF descriptors = <<>> THEN <<>>
    ELSE [i \in 1..Len(Head(descriptors)) |->
            [ep |-> Head(descriptors)[i], interface |-> number]]
         \o AltEndpoints(number, Tail(descriptors))

RECURSIVE ScanOrder(_)
ScanOrder(config) ==
    IF config = <<>> THEN <<>>
    ELSE AltEndpoints(Head(config).number, Head(config).descriptors)
         \o ScanOrder(Tail(config))

IsBulkOut(endpoint_desc) ==
    endpoint_desc.direction = "Out" /\ endpoint_desc.transfer_type = "Bulk"

\* The loop body: every bulk-OUT endpoint overwrites bulk_out_endpoint.
RECURSIVE ScanEndpoints(_, _)
ScanEndpoints(eps, bulk_out_endpoint) ==
    IF eps = <<>> THEN bulk_out_endpoint
    ELSE ScanEndpoints(Tail(eps),
                       IF IsBulkOut(Head(eps).ep)
                       THEN Some(Head(eps).ep.address)
                       ELSE bulk_out_endpoint)

\* bulk_out_endpoint after the loops over config_desc
FindBulkOut(config) == ScanEndpoints(ScanOrder(config), None)

\* device.active_config_descriptor()?, the endpoint scan and `if let Some(..)`
ResolveEndpoint(j) ==
    /\ pc[j] = "config"
    /\ \/ LET found == FindBulkOut(devices[dev[j]].config)
          IN  /\ endpoint' = [endpoint EXCEPT ![j] = found]
              /\ IF found # None
                 THEN /\ pc' = [pc EXCEPT ![j] = "compose"]
                      /\ UNCHANGED result
                 ELSE Leave(j, "NoEndpoint")
       \/ /\ Leave(j, "ConfigError")
          /\ UNCHANGED endpoint
    /\ UNCHANGED <<qrVars, devices, busVars, req, idx, dev, opened, print_data,
                   written, ops, outVars>>

\* as Compose, with the requested vendor id stamped into the stream
Compose_Stamped(j) ==
    /\ pc[j] = "compose"
    /\ IF ComposePanics(req[j].lines)
       THEN /\ Leave(j, "Panic")
            /\ UNCHANGED print_data
       ELSE /\ print_data' = [print_data EXCEPT ![j] =
                                compose_print_data(req[j].lines) \o <<req[j].vid % 256>>]
            /\ pc' = [pc EXCEPT ![j] = "write"]
            /\ UNCHANGED result
    /\ UNCHANGED <<qrVars, devices, busVars, req, idx, dev, opened, endpoint,
                   written, ops, outVars>>

\* let print_data = compose_print_data(lines); a panic unwinds the function.
Compose(j) ==
    /\ pc[j] = "compose"
    /\ IF ComposePanics(req[j].lines)
       THEN /\ Leave(j, "Panic")
            /\ UNCHANGED print_data
       ELSE /\ print_data' = [print_data EXCEPT ![j] = compose_print_data(req[j].lines)]
            /\ pc' = [pc EXCEPT ![j] = "write"]
            /\ UNCHANGED result
    /\ UNCHANGED <<qrVars, devices, busVars, req, idx, dev, opened, endpoint,
                   written, ops, outVars>>

\* handle.write_bulk(endpoint, &print_data, timeout) in progress: the device
\* takes the next packet of the transfer.
WritePacket(j) ==
    /\ pc[j] = "write"
    /\ written[j] < Len(print_data[j])
    /\ LET n == Min(PacketSize, Len(print_data[j]) - written[j])
       IN  /\ wire' = [wire EXCEPT ![dev[j]] =
                         Append(@, [job |-> j, endpoint |-> endpoint[j][1],
                                    from |-> written[j], n |-> n])]
           /\ written' = [written EXCEPT ![j] = @ + n]
    /\ UNCHANGED <<qrVars, devices, kernel_driver, claimed, pc, req, idx, dev, opened,
                   endpoint, print_data, result, ops, outVars>>

\* let bytes_written = handle.write_bulk(..)?: the transfer ends complete, by
\* the 5 s timeout (Ok(n) after n > 0 bytes, Err after none) or by an error.
\* bytes_written is only printed.
WriteBulkReturn(j) ==
    /\ pc[j] = "write"
    /\ \/ /\ written[j] = Len(print_data[j])
          /\ pc' = [pc EXCEPT ![j] = "release"]
          /\ Did(j, "write", TRUE)
          /\ UNCHANGED result
       \/ /\ 0 < written[j] /\ written[j] < Len(print_data[j])
          /\ pc' = [pc EXCEPT ![j] = "release"]
          /\ Did(j, "write", TRUE)
          /\ UNCHANGED result
       \/ /\ written[j] < Len(print_data[j])
          /\ Leave(j, "WriteError")
          /\ Did(j, "write", FALSE)
    /\ UNCHANGED <<qrVars, devices, busVars, jobData, outVars>>

\* handle.release_interface(interface_number)?; return Ok(())
ReleaseInterface(j) ==
    /\ pc[j] = "release"
    /\ \/ /\ claimed' = [claimed EXCEPT ![dev[j]] = 0]
          /\ Leave(j, "Ok")
          /\ Did(j, "release", TRUE)
       \/ /\ Leave(j, "ReleaseError")
          /\ Did(j, "release", FALSE)
          /\ UNCHANGED claimed
    /\ UNCHANGED <<qrVars, devices, kernel_driver, wire, jobData, outVars>>

\* as DropHandle, with the handle leaked (kept alive past the function)
DropHandle_Leaked(j) == claimed

\* `handle` goes out of scope: the interfaces still claimed through it are
\* released and the device is closed.
DropHandle(j) == [d \in DOMAIN claimed |-> IF claimed[d] = j THEN 0 ELSE claimed[d]]

\* The function returns (or unwinds) to the handler: locals are dropped first.
Return(j) ==
    /\ pc[j] = "exit"
    /\ claimed' = IF opened[j] THEN DropHandle(j) ELSE claimed
    /\ opened' = [opened EXCEPT ![j] = FALSE]
    /\ pc' = [pc EXCEPT ![j] = "returned"]
    /\ UNCHANGED <<qrVars, devices, kernel_driver, wire, req, idx, dev, endpoint,
                   print_data, written, result, ops, outVars>>

\* ------------------------------------------------- the HTTP handlers, exit
\* format!("User: {}", print_info.name) and format!("User: oscar")
StatusLine(name) == <<"User: ", name>>

\* The `match` on the result prints one line and drops the result; the handler
\* answers with the status line.  A panic of the handler is answered by the
\* server with 500 and no body of the handler's.
Respond(j) ==
    /\ pc[j] = "returned"
    /\ IF result[j] = "Panic"
       THEN /\ response' = [response EXCEPT ![j] = [status |-> 500, body |-> <<>>]]
            /\ UNCHANGED log
       ELSE /\ log' = [log EXCEPT ![j] =
                         IF result[j] = "Ok" THEN "Printed successfully."
                         ELSE "Printing failed"]
            /\ response' = [response EXCEPT ![j] =
                              [status |-> 200, body |-> StatusLine(req[j].name)]]
    /\ pc' = [pc EXCEPT ![j] = "done"]
    /\ UNCHANGED <<qrVars, devices, busVars, jobData, result, ops>>

Next ==
    \E j \in Jobs :
        \/ print_receipt(j)
        \/ \E print_info \in PrintInfos : print_receipt_info(j, print_info)
        \/ Enumerate(j)
        \/ ScanDevice(j)
        \/ Open(j)
        \/ KernelDriverActive(j)
        \/ DetachKernelDriver(j)
        \/ ClaimInterface(j)
        \/ ResolveEndpoint(j)
        \/ Compose(j)
        \/ WritePacket(j)
        \/ WriteBulkReturn(j)
        \/ ReleaseInterface(j)
        \/ Return(j)
        \/ Respond(j)

Spec == Init /\ [][Next]_vars

\* ===================================================================
\* compose_print_data on its own
\* ===================================================================
MaxLines == 2       \* lines of a receipt

TextB == <<66>>
LineEmpty == Line(<<>>, TRUE, FALSE, TRUE, None)
LineQr == Line(TextB, TRUE, TRUE, TRUE, Some(Payload(3, 1)))

LinePool == {LineA, LineEmpty, LineQr, LineBadQr}

LineSeqs == UNION { [1..n -> LinePool] : n \in 0..MaxLines }

\* The job state before a request arrived, with no device on the bus.
Idle ==
    /\ devices = <<>>
    /\ kernel_driver = <<>>
    /\ claimed = <<>>
    /\ wire = <<>>
    /\ pc = [j \in Jobs |-> "idle"]
    /\ req = [j \in Jobs |-> NoReq]
    /\ idx = [j \in Jobs |-> 0]
    /\ dev = [j \in Jobs |-> 0]
    /\ opened = [j \in Jobs |-> FALSE]
    /\ endpoint = [j \in Jobs |-> None]
    /\ print_data = [j \in Jobs |-> <<>>]
    /\ written = [j \in Jobs |-> 0]
    /\ result = [j \in Jobs |-> "none"]
    /\ ops = [j \in Jobs |-> <<>>]
    /\ log = [j \in Jobs |-> "none"]
    /\ response = [j \in Jobs |-> [status |-> 0, body |-> <<>>]]

\* Job 1 stands at `let print_data = compose_print_data(lines)` with any
\* receipt of up to MaxLines lines, under any name and ids.
InitCompose ==
    \E info \in { PrintInfo(name, vid, FixedPid, lines) :
                    name \in {"ana", "oscar"}, vid \in {FixedVid, OtherVid},
                    lines \in LineSeqs } :
        /\ devices = <<>>
        /\ kernel_driver = <<>>
        /\ claimed = <<>>
        /\ wire = <<>>
        /\ pc = [j \in Jobs |-> IF j = 1 THEN "compose" ELSE "idle"]
        /\ req = [j \in Jobs |-> IF j = 1 THEN info ELSE NoReq]
        /\ idx = [j \in Jobs |-> 0]
        /\ dev = [j \in Jobs |-> 0]
        /\ opened = [j \in Jobs |-> FALSE]
        /\ endpoint = [j \in Jobs |-> None]
        /\ print_data = [j \in Jobs |-> <<>>]
        /\ written = [j \in Jobs |-> 0]
        /\ result = [j \in Jobs |-> "none"]
        /\ ops = [j \in Jobs |-> <<>>]
        /\ log = [j \in Jobs |-> "none"]
        /\ response = [j \in Jobs |-> [status |-> 0, body |-> <<>>]]
        /\ image = NoImage
        /\ bytes = <<>>

NextCompose == \E j \in Jobs : Compose(j)

SpecCompose == InitCompose /\ [][NextCompose]_vars

\* ===================================================================
\* qr_to_escpos on its own
\* ===================================================================
MaxSide == 4        \* width and height of a source bitmap

\* the intensities around the threshold and the two extremes
Shade(k) == IF k = 0 THEN 0 ELSE IF k = 1 THEN Threshold - 1
            ELSE IF k = 2 THEN Threshold ELSE 255

\* Source bitmaps of every size up to MaxSide x MaxSide, square or not, in
\* four pixel patterns, and the bitmaps generate_qr renders.
Bitmaps ==
    { [width |-> w, height |-> h,
       px |-> [y \in 0..(h - 1) |-> [x \in 0..(w - 1) |-> Shade((x + 2 * y + p) % 4)]]] :
        w \in 1..MaxSide, h \in 1..MaxSide, p \in 0..3 }
    \cup { generate_qr(Payload(1, sym)) : sym \in {0, 1} }

InitQr ==
    /\ Idle
    /\ image \in Bitmaps
    /\ bytes = <<>>

\* let qr_bytes = qr_to_escpos(qr_img)
ConvertQr ==
    /\ image # NoImage
    /\ bytes = <<>>
    /\ bytes' = qr_to_escpos(image)
    /\ UNCHANGED <<image, devices, busVars, pc, jobData, result, ops, outVars>>

NextQr == ConvertQr

SpecQr == InitQr /\ [][NextQr]_vars

\* ===================================================================
\* Properties
\* ===================================================================
Returned(j) == pc[j] \in {"returned", "done"}

\* the job is between the start of discovery and its release / failure
InSpan(j) == pc[j] \in {"enumerate", "scan", "open", "driver", "detach", "claim",
                         "config", "compose", "write", "release", "exit"}

Attempted(j, op) == \E i \in 1..Len(ops[j]) : ops[j][i].op = op
Succeeded(j, op) == \E i \in 1..Len(ops[j]) : ops[j][i].op = op /\ ops[j][i].ok

PacketsOf(j, d) == { i \in 1..Len(wire[d]) : wire[d][i].job = j }

\* C1: whatever way print_to_thermal_printer ends, once it has returned to the
\* handler no interface is claimed through the job's handle any more.
C1_ReleasedOnEveryExit ==
    \A j \in Jobs : Returned(j) => \A d \in DOMAIN claimed : claimed[d] # j

\* C1 witness: a job that had claimed the interface returned by an error path.
C1_Witness ==
    \E j \in Jobs :
        /\ Returned(j)
        /\ Succeeded(j, "claim")
        /\ result[j] \in {"NoEndpoint", "ConfigError", "WriteError"}

\* C2: on every device, the packets of one job are never separated by a
\* packet of another job.
C2_NoInterleaving ==
    \A d \in DOMAIN wire :
        \A i, k, l \in 1..Len(wire[d]) :
            (i < k /\ k < l /\ wire[d][i].job = wire[d][l].job)
                => wire[d][k].job = wire[d][i].job

\* C2 witness: two jobs with the same (vid, pid) both wrote to one device,
\* both in more than one packet.
C2_Witness ==
    \E d \in DOMAIN wire :
        /\ Cardinality(PacketsOf(1, d)) >= 2
        /\ Cardinality(PacketsOf(2, d)) >= 2
        /\ req[1].vid = req[2].vid /\ req[1].pid = req[2].pid

\* C3: of the jobs that target one (vid, pid), at most one at a time is between
\* the start of discovery and its release, and none fails at the claim because
\* another job holds the interface.
C3_OneJobPerDevice ==
    \A j1, j2 \in Jobs :
        (j1 # j2 /\ req[j1].vid = req[j2].vid /\ req[j1].pid = req[j2].pid)
            => /\ ~(InSpan(j1) /\ InSpan(j2))
               /\ ~(result[j1] = "ClaimError" /\ dev[j2] = dev[j1] /\ claimed[dev[j1]] = j2)

\* C4: a job that ended because a QR payload cannot be encoded has attempted no
\* device operation and has put no byte on any wire.
C4_EncodingFailureTouchesNoDevice ==
    \A j \in Jobs :
        result[j] = "Panic"
            => /\ ops[j] = <<>>
               /\ \A d \in DOMAIN wire : PacketsOf(j, d) = {}

\* C5: a job whose result is success has written the whole composed stream.
C5_SuccessMeansFullWrite ==
    \A j \in Jobs : result[j] = "Ok" => written[j] = Len(print_data[j])

\* C6: a job that detached the kernel driver has it attached again once it
\* has returned.
C6_DriverReattached ==
    \A j \in Jobs :
        (Returned(j) /\ Succeeded(j, "detach")) => kernel_driver[dev[j]]

\* C7: the response to a failed job differs from the response the same
\* request gets on success.
C7_FailureSurfaced ==
    \A j \in Jobs :
        (pc[j] = "done" /\ result[j] # "Ok")
            => response[j] # [status |-> 200, body |-> StatusLine(req[j].name)]

\* C8: every finished request was answered with the status line that names
\* its `name`.
C8_StatusLineAlways ==
    \A j \in Jobs : pc[j] = "done" => response[j].body = StatusLine(req[j].name)

\* the first bulk-OUT endpoint of a configuration in scan order
FirstBulkOut(config) ==
    LET eps == ScanOrder(config)
        hits == { i \in 1..Len(eps) : IsBulkOut(eps[i].ep) }
    IN  IF hits = {} THEN None
        ELSE Some(eps[CHOOSE i \in hits : \A k \in hits : i <= k].ep.address)

\* C9: the endpoint a job resolved, and every packet it sent, is the first
\* bulk-OUT endpoint of the device's configuration in scan order.
C9_FirstBulkOutUsed ==
    \A j \in Jobs :
        (dev[j] # 0 /\ endpoint[j] # None)
            => /\ endpoint[j] = FirstBulkOut(devices[dev[j]].config)
               /\ \A i \in PacketsOf(j, dev[j]) :
                     Some(wire[dev[j]][i].endpoint) = FirstBulkOut(devices[dev[j]].config)

\* the first device in enumeration order with the requested ids, or 0
FirstMatch(vid, pid) ==
    LET hits == { i \in 1..Len(devices) : devices[i].vid = vid /\ devices[i].pid = pid }
    IN  IF hits = {} THEN 0 ELSE CHOOSE i \in hits : \A k \in hits : i <= k

\* the job opened device m first and operated on no other device
OperatesOnlyOn(j, m) ==
    /\ dev[j] = m
    /\ ops[j] # <<>> /\ ops[j][1].op = "open"
    /\ \A i \in 1..Len(ops[j]) : ops[j][i].dev = m
    /\ \A d \in DOMAIN wire : d # m => PacketsOf(j, d) = {}
    /\ \A d \in DOMAIN claimed : d # m => claimed[d] # j

\* C10 as claimed: a returned job failed with "not found" exactly when no
\* enumerated device matches, and otherwise opened the first match and
\* operated on it only.
C10_DiscoveryAsClaimed ==
    \A j \in Jobs :
        Returned(j) =>
            LET m == FirstMatch(req[j].vid, req[j].pid)
            IN  /\ (result[j] = "NotFound") <=> (m = 0)
                /\ m # 0 => OperatesOnlyOn(j, m)

\* C10 as amended: the same for a job whose context, enumeration and
\* descriptor reads did not fail; a job in which one of them failed has
\* attempted no device operation.
C10_Discovery ==
    \A j \in Jobs :
        Returned(j) =>
            LET m == FirstMatch(req[j].vid, req[j].pid)
            IN  IF result[j] \in {"ContextError", "DescriptorError"}
                THEN ops[j] = <<>> /\ \A d \in DOMAIN wire : PacketsOf(j, d) = {}
                ELSE /\ (result[j] = "NotFound") <=> (m = 0)
                     /\ m # 0 => OperatesOnlyOn(j, m)

\* C10 witness: a job returned after operating on a first match that is not
\* the first device, and a job returned with "not found" on a non-empty bus.
C10_Witness ==
    /\ \E j \in Jobs : Returned(j) /\ FirstMatch(req[j].vid, req[j].pid) = 2
                        /\ Succeeded(j, "open")
    /\ \E j \in Jobs : Returned(j) /\ result[j] = "NotFound" /\ Len(devices) > 0

\* the job has composed its stream
Composed(j) == print_data[j] # <<>>

CmdInit == <<27, 64>>
CmdAlign(center) == IF center THEN <<27, 97, 1>> ELSE <<27, 97, 0>>
CmdBold(bold) == IF bold THEN <<27, 69, 1>> ELSE <<27, 69, 0>>
CmdSize(double_size) == IF double_size THEN <<29, 33, 17>> ELSE <<29, 33, 0>>
CmdReset == <<27, 69, 0, 29, 33, 0, 27, 97, 0>>
CmdCut == <<27, 100, 3, 29, 86, 0>>

\* the segment of one line, as the claim gives it
Segment(line) ==
    CmdAlign(line.center) \o CmdBold(line.bold) \o CmdSize(line.double_size)
    \o (IF Len(line.text) > 0 THEN line.text \o <<10>> ELSE <<>>)
    \o (IF Len(line.qr) = 1 THEN qr_to_escpos(generate_qr(line.qr[1])) \o <<10>> ELSE <<>>)

RECURSIVE Segments(_, _)
\* the segments of lines i.. in input order
Segments(lines, i) ==
    IF i > Len(lines) THEN <<>> ELSE Segment(lines[i]) \o Segments(lines, i + 1)

ExpectedStream(lines) == CmdInit \o Segments(lines, 1) \o CmdReset \o CmdCut

\* C12: the stream compose_print_data returned is initialize, the segment of
\* each line in input order (all three formatting commands for every line),
\* the reset and the cut.
C12_StreamLayout ==
    \A j \in Jobs : pc[j] = "write" => print_data[j] = ExpectedStream(req[j].lines)

\* C12 witness: a receipt was composed whose first line has neither text nor
\* QR and whose second line has text, a QR and other flags.
C12_Witness ==
    /\ pc[1] = "write"
    /\ req[1].lines = <<LineEmpty, LineQr>>
    /\ Len(print_data[1]) > 5000

EmptyJobBytes == <<27, 64, 27, 69, 0, 29, 33, 0, 27, 97, 0, 27, 100, 3, 29, 86, 0>>

\* C13: a job with no line composed exactly initialize, reset, cut, and the
\* packets it sent lie within these bytes.
C13_EmptyReceipt ==
    \A j \in Jobs :
        (req[j].lines = <<>> /\ Composed(j))
            => /\ print_data[j] = EmptyJobBytes
               /\ \A i \in PacketsOf(j, dev[j]) :
                     wire[dev[j]][i].from + wire[dev[j]][i].n <= Len(EmptyJobBytes)

\* C13 witness: GET /print, which has no line, wrote its whole stream and
\* returned success.
C13_Witness ==
    \E j \in Jobs :
        /\ req[j].name = "oscar" /\ req[j].lines = <<>>
        /\ pc[j] = "done" /\ result[j] = "Ok"
        /\ written[j] = Len(EmptyJobBytes)
        /\ Cardinality(PacketsOf(j, dev[j])) >= 1

RasterHeader == <<29, 118, 48, 0, 25, 0, 200, 0>>

\* the command has the header 1D 76 30 00 19 00 C8 00 and 25 * 200 data bytes
FixedRaster(cmd) ==
    /\ Len(cmd) = 8 + 25 * 200
    /\ SubSeq(cmd, 1, 8) = RasterHeader

BitSet(b, k) == (b \div Pow2(k)) % 2 = 1

\* C15: in the command for the resized bitmap of width w and height h, bit
\* (7 - x mod 8) of data byte y * ceil(w/8) + x div 8 is set exactly when
\* x < w and pixel (x, y) is darker than 128; the bits past w are 0.
C15_RasterPacking ==
    bytes # <<>> =>
        LET gray == resize(image, QrSide, QrSide)
            wb == (gray.width + 7) \div 8
        IN  /\ Len(bytes) = 8 + gray.height * wb
            /\ \A y \in 0..(gray.height - 1) : \A x \in 0..(8 * wb - 1) :
                  BitSet(bytes[8 + y * wb + (x \div 8) + 1], 7 - (x % 8))
                      <=> (x < gray.width /\ gray.px[y][x] < Threshold)

\* C15 witness: a command whose rows are 100 bits wide, 4 bits short of 13
\* bytes, with ink in the last byte of the first row.
C15_Witness ==
    /\ bytes # <<>>
    /\ resize(image, QrSide, QrSide).width = 100
    /\ bytes[8 + 13] # 0

\* the place of a device operation in the order of the claim
Rank(op) == IF op = "open" THEN 1 ELSE IF op = "detach" THEN 2
            ELSE IF op = "claim" THEN 3 ELSE IF op = "write" THEN 4 ELSE 5

\* C16: the device operations of a job come in the order open, (detach,)
\* claim, write, release, each after the one before it succeeded; a job is in
\* the bulk write only with the interface claimed and an endpoint resolved,
\* and its result is success only after the write returned Ok and the release
\* succeeded.
C16_StepOrder ==
    \A j \in Jobs :
        /\ \A i, k \in 1..Len(ops[j]) : i < k => Rank(ops[j][i].op) < Rank(ops[j][k].op)
        /\ \A i \in 1..Len(ops[j]) : i < Len(ops[j]) => ops[j][i].ok
        /\ ops[j] # <<>> => ops[j][1].op = "open"
        /\ Attempted(j, "write") => Succeeded(j, "claim")
        /\ Attempted(j, "release") => Succeeded(j, "write")
        /\ (pc[j] = "write" \/ \E d \in DOMAIN wire : PacketsOf(j, d) # {})
              => /\ Succeeded(j, "claim")
                 /\ endpoint[j] # None
        /\ pc[j] = "write" => opened[j] /\ claimed[dev[j]] = j
        /\ result[j] = "Ok"
              => /\ Succeeded(j, "write")
                 /\ ops[j][Len(ops[j])] = [op |-> "release", dev |-> dev[j], ok |-> TRUE]

\* C16 witness: a job that went through open, detach, claim, write and
\* release and returned success.
C16_Witness ==
    \E j \in Jobs :
        /\ Returned(j) /\ result[j] = "Ok"
        /\ Len(ops[j]) = 5
        /\ written[j] = Len(print_data[j])

\* C17: a job attempts each of open, detach, claim and write at most once, on
\* one device; an operation that failed is the last one it attempted; once the
\* function has its result the job is only leaving, and a job that failed on
\* its device has not moved on in the enumeration.
C17_NoRetry ==
    \A j \in Jobs :
        /\ \A op \in {"open", "detach", "claim", "write", "release"} :
              Cardinality({ i \in 1..Len(ops[j]) : ops[j][i].op = op }) <= 1
        /\ \A i \in 1..Len(ops[j]) : ~ops[j][i].ok => i = Len(ops[j])
        /\ \A i \in 1..Len(ops[j]) : ops[j][i].dev = dev[j]
        /\ result[j] # "none" => pc[j] \in {"exit", "returned", "done"}
        /\ dev[j] # 0 => idx[j] = dev[j]

\* C17 witness: a job returned after its claim failed, with a second matching
\* device on the bus that it did not try.
C17_Witness ==
    \E j \in Jobs :
        /\ Returned(j) /\ result[j] = "ClaimError"
        /\ Len(devices) = 2 /\ dev[j] = 1
        /\ DescMatches(devices[2], req[j].vid, req[j].pid)
        /\ Len(ops[j]) = 2

\* the interfaces of a configuration that have an endpoint with this address
InterfacesOf(config, address) ==
    { ScanOrder(config)[i].interface :
        i \in { k \in 1..Len(ScanOrder(config)) : ScanOrder(config)[k].ep.address = address } }

\* C18: every packet on a device's wire went to an endpoint of interface 0,
\* the interface the jobs claim.
C18_WritesToClaimedInterface ==
    \A d \in DOMAIN wire : \A i \in 1..Len(wire[d]) :
        InterfacesOf(devices[d].config, wire[d][i].endpoint) = {interface_number}

====
